---- MODULE Spec2Model ----
(***************************************************************************)
(* Model of the business/review REST API of src/main.py.                   *)
(*                                                                         *)
(* State: the two MySQL tables (committed rows), their AUTO_INCREMENT      *)
(* counters, the POST /reviews requests that are in flight (one per server *)
(* thread) and the last HTTP response sent.  Every handler opens a         *)
(* connection with `with db.connect() as conn`; statements run in the      *)
(* connection's transaction and reach the tables only through              *)
(* conn.commit(); leaving the with-block closes the connection, which      *)
(* discards whatever was not committed.                                    *)
(*                                                                         *)
(* Inputs left out of the request sets: JSON null values, values of the    *)
(* wrong JSON type for INT columns, keys other than the columns, strings   *)
(* longer than their column.                                               *)
(***************************************************************************)
EXTENDS Integers, Sequences, FiniteSets, TLC

VARIABLES business, review, businessNextId, reviewNextId, inflight, last

vars == <<business, review, businessNextId, reviewNextId, inflight, last>>

(***************************************************************************)
(* Bounds of the model.                                                    *)
(***************************************************************************)
MaxBusinessId == 2
MaxReviewId == 2
MaxLimit == 2
MaxOffset == 2
NumThreads == 2

Threads == 1..NumThreads
BusinessIds == 1..MaxBusinessId
ReviewIds == 1..MaxReviewId

(***************************************************************************)
(* Values.                                                                 *)
(***************************************************************************)
None == <<>>
Some(v) == <<v>>

JInt(n) == [t |-> "int", n |-> n, s |-> <<>>]
JStr(s) == [t |-> "str", n |-> 0, s |-> s]

DigitChars == <<"0", "1", "2", "3", "4", "5", "6", "7", "8", "9">>

DigitValue(c) == (CHOOSE i \in 1..10 : DigitChars[i] = c) - 1

IsDigit(c) == \E i \in 1..10 : DigitChars[i] = c

RECURSIVE DecimalString(_)
\* str(n) of a natural number, as MySQL renders an integer parameter that is
\* written to a VARCHAR column
DecimalString(n) ==
  IF n < 10 THEN <<DigitChars[n + 1]>>
  ELSE Append(DecimalString(n \div 10), DigitChars[(n % 10) + 1])

RECURSIVE DigitsValue(_)
DigitsValue(s) ==
  IF s = <<>> THEN 0
  ELSE 10 * DigitsValue(SubSeq(s, 1, Len(s) - 1)) + DigitValue(s[Len(s)])

AllDigits(s) == Len(s) > 0 /\ \A i \in 1..Len(s) : IsDigit(s[i])

\* Python's int(str): an optional sign and decimal digits, else ValueError
PyInt(s) ==
  IF AllDigits(s) THEN [ok |-> TRUE, val |-> DigitsValue(s)]
  ELSE IF Len(s) > 1 /\ s[1] = "-" /\ AllDigits(Tail(s))
    THEN [ok |-> TRUE, val |-> 0 - DigitsValue(Tail(s))]
  ELSE [ok |-> FALSE, val |-> 0]

\* the value a VARCHAR column holds after a JSON parameter is written to it
ToVarchar(j) == IF j.t = "int" THEN DecimalString(j.n) ELSE j.s

(***************************************************************************)
(* Tables: functions from the primary key to the row.                      *)
(***************************************************************************)
PutRow(table, id, row) ==
  [i \in DOMAIN table \cup {id} |-> IF i = id THEN row ELSE table[i]]

DropRows(table, ids) == [i \in DOMAIN table \ ids |-> table[i]]

EmptyTable == [i \in {} |-> None]

RECURSIVE SortedIds(_)
\* the ids of a table in primary-key order
SortedIds(S) ==
  IF S = {} THEN <<>>
  ELSE LET m == CHOOSE x \in S : \A y \in S : x <= y
       IN <<m>> \o SortedIds(S \ {m})

Restrict(f, S) == [k \in S |-> f[k]]

Response(status, body) == [status |-> status, body |-> body]

ErrorBody(msg) == [Error |-> msg]

EmptyBody == [empty |-> TRUE]

BusinessUrl(id) == <<"businesses", id>>

ReviewUrl(id) == <<"reviews", id>>

(***************************************************************************)
(* Connections.                                                            *)
(***************************************************************************)
\* conn.commit(): the transaction's working copy becomes the table
Commit(table, working) == working

\* leaving `with db.connect() as conn` with work that was never committed
Rollback(table, working) == table

(***************************************************************************)
(* Response formatting.                                                    *)
(***************************************************************************)
\* format_business_response raises ValueError when int(zip_code) does
FormatsBusiness(row) == PyInt(row.zip_code).ok

format_business_response(row) ==
  [id |-> row.id,
   owner_id |-> row.owner_id,
   name |-> row.name,
   street_address |-> row.street_address,
   city |-> row.city,
   state |-> row.state,
   zip_code |-> PyInt(row.zip_code).val]

WithSelf(body, id) ==
  [k \in DOMAIN body \cup {"self"} |->
     IF k = "self" THEN BusinessUrl(id) ELSE body[k]]

format_review_response(row) ==
  [id |-> row.id,
   user_id |-> row.user_id,
   business |-> BusinessUrl(row.business_id),
   stars |-> row.stars,
   review_text |-> row.review_text,
   self |-> ReviewUrl(row.id)]

\* an exception that no handler catches: Flask answers 500
ServerError == Response(500, ErrorBody("Internal Server Error"))

BusinessResponse(status, row) ==
  IF FormatsBusiness(row)
  THEN Response(status, WithSelf(format_business_response(row), row.id))
  ELSE ServerError

(***************************************************************************)
(* Requests.                                                               *)
(***************************************************************************)
BusinessFields ==
  {"owner_id", "name", "street_address", "city", "state", "zip_code"}

OwnerIds == {1, 2}

Business(o, z) ==
  [owner_id |-> o, name |-> "Cafe", street_address |-> "1 Main St",
   city |-> "Corvallis", state |-> "OR", zip_code |-> z]

\* zip codes as a JSON number, as the same digits in a string, with a leading
\* zero, and in a form that is no numeral
FullBusinessBodies ==
  {Business(1, JInt(7)), Business(1, JStr(<<"7">>)),
   Business(2, JStr(<<"0", "7">>)), Business(1, JStr(<<"7", "-">>))}

\* bodies that lack one field, and the empty object
PartialBusinessBodies ==
  {Restrict(Business(1, JInt(7)), BusinessFields \ {f}) : f \in BusinessFields}
  \cup {Restrict(Business(1, JInt(7)), {})}

BusinessBodies == FullBusinessBodies \cup PartialBusinessBodies

\* `any(...)` where the handlers say `all(...)`
HasAny(data, required) == \E f \in required : f \in DOMAIN data

\* `all(field in data for field in required_fields)`
HasAll(data, required) == \A f \in required : f \in DOMAIN data

BusinessRow(id, data) ==
  [id |-> id,
   owner_id |-> data.owner_id,
   name |-> data.name,
   street_address |-> data.street_address,
   city |-> data.city,
   state |-> data.state,
   zip_code |-> ToVarchar(data.zip_code)]

(***************************************************************************)
(* The database as the handlers see it, and what a handler leaves behind.  *)
(***************************************************************************)
DB ==
  [business |-> business, review |-> review,
   businessNextId |-> businessNextId, reviewNextId |-> reviewNextId]

Result(resp, db) == [resp |-> resp, db |-> db]

\* a handler ran: the database it left and the response it sent
Served(op, id, r) ==
  /\ business' = r.db.business
  /\ review' = r.db.review
  /\ businessNextId' = r.db.businessNextId
  /\ reviewNextId' = r.db.reviewNextId
  /\ last' = [op |-> op, id |-> id, resp |-> r.resp]

(***************************************************************************)
(* POST /businesses                                                        *)
(***************************************************************************)
\* conn.execute(insert, data): every bind parameter of the statement needs a
\* value; the row takes the next AUTO_INCREMENT id
insert_business(db, data) ==
  IF ~(BusinessFields \subseteq DOMAIN data)
  THEN [ok |-> FALSE, db |-> db]
  ELSE [ok |-> TRUE,
        db |-> [db EXCEPT
                  !.business = PutRow(@, db.businessNextId,
                                      BusinessRow(db.businessNextId, data)),
                  !.businessNextId = @ + 1]]

create_business(db, data) ==
  IF ~HasAll(data, BusinessFields)
  THEN Result(Response(400, ErrorBody("missing attribute")), db)
  ELSE LET ins == insert_business(db, data)
           id == db.businessNextId
           stored == [ins.db EXCEPT !.business = Commit(db.business, @)]
       IN IF ~ins.ok THEN Result(ServerError, db)
          ELSE IF id \notin DOMAIN stored.business
          THEN Result(Response(500, ErrorBody("Failed to fetch created business")), stored)
          ELSE Result(BusinessResponse(201, stored.business[id]), stored)

CreateBusiness(data) ==
  /\ businessNextId <= MaxBusinessId
  /\ Served("create_business", 0, create_business(DB, data))
  /\ UNCHANGED inflight

(***************************************************************************)
(* GET /businesses/<id>                                                    *)
(***************************************************************************)
get_business_by_id(db, business_id) ==
  IF business_id \notin DOMAIN db.business
  THEN Result(Response(404, ErrorBody("No business with this business_id exists")), db)
  ELSE Result(BusinessResponse(200, db.business[business_id]), db)

GetBusinessById(business_id) ==
  /\ Served("get_business_by_id", business_id, get_business_by_id(DB, business_id))
  /\ UNCHANGED inflight

(***************************************************************************)
(* GET /businesses?limit&offset                                            *)
(***************************************************************************)
\* SELECT * FROM business LIMIT :limit OFFSET :offset, rows in primary-key
\* order (the table has no other index)
SelectPage(table, limit, offset) ==
  LET ids == SortedIds(DOMAIN table)
      hi == IF offset + limit < Len(ids) THEN offset + limit ELSE Len(ids)
  IN [i \in 1..(hi - offset) |-> table[ids[offset + i]]]

NextLink(offset, limit) == [offset |-> offset, limit |-> limit]

get_businesses(db, limit, offset) ==
  IF limit < 0 \/ offset < 0
  THEN Result(ServerError, db)   \* MySQL rejects a negative LIMIT or OFFSET
  ELSE LET rows == SelectPage(db.business, limit, offset)
           total_count == Cardinality(DOMAIN db.business)
       IN IF \E i \in 1..Len(rows) : ~FormatsBusiness(rows[i])
          THEN Result(ServerError, db)
          ELSE Result(Response(200,
                 [entries |-> [i \in 1..Len(rows) |->
                                 WithSelf(format_business_response(rows[i]), rows[i].id)],
                  next |-> IF offset + limit < total_count
                           THEN Some(NextLink(offset + limit, limit))
                           ELSE None]), db)

Limits == (0 - 1)..MaxLimit

Offsets == (0 - 1)..MaxOffset

GetBusinesses(limit, offset) ==
  /\ Served("get_businesses", 0, get_businesses(DB, limit, offset))
  /\ UNCHANGED inflight

(***************************************************************************)
(* PUT /businesses/<id>                                                    *)
(***************************************************************************)
\* UPDATE business SET ... WHERE id = :id
update_business_query(table, business_id, data) ==
  [table EXCEPT ![business_id] = BusinessRow(business_id, data)]

edit_business(db, business_id, data) ==
  IF DOMAIN data = {} \/ ~HasAll(data, BusinessFields)
  THEN Result(Response(400, ErrorBody("missing attribute")), db)
  ELSE IF business_id \notin DOMAIN db.business
  THEN Result(Response(404, ErrorBody("No business with this business_id exists")), db)
  ELSE IF ~(BusinessFields \subseteq DOMAIN data)
  THEN Result(ServerError, db)
  ELSE LET working == update_business_query(db.business, business_id, data)
           stored == [db EXCEPT !.business = Commit(@, working)]
       IN Result(BusinessResponse(200, stored.business[business_id]), stored)

EditBusiness(business_id, data) ==
  /\ Served("edit_business", business_id, edit_business(DB, business_id, data))
  /\ UNCHANGED inflight

(***************************************************************************)
(* DELETE /businesses/<id>                                                 *)
(***************************************************************************)
\* the statement with `WHERE id = :business_id`
delete_reviews_by_id(table, business_id) ==
  DropRows(table, {r \in DOMAIN table : table[r].id = business_id})

\* DELETE FROM review WHERE business_id = :business_id
delete_reviews_query(table, business_id) ==
  DropRows(table, {r \in DOMAIN table : table[r].business_id = business_id})

\* DELETE FROM business WHERE id = :id; the review table's foreign key is
\* declared ON DELETE CASCADE
delete_business_query(db, business_id) ==
  [db EXCEPT
     !.business = DropRows(@, {business_id}),
     !.review = DropRows(@, {r \in DOMAIN @ : @[r].business_id = business_id})]

delete_business(db, business_id) ==
  IF business_id \notin DOMAIN db.business
  THEN Result(Response(404, ErrorBody("No business with this business_id exists")), db)
  ELSE LET reviews == [db EXCEPT !.review = delete_reviews_query(@, business_id)]
           working == delete_business_query(reviews, business_id)
           stored == [db EXCEPT !.business = Commit(@, working.business),
                                !.review = Commit(@, working.review)]
       IN Result(Response(204, EmptyBody), stored)

DeleteBusiness(business_id) ==
  /\ Served("delete_business", business_id, delete_business(DB, business_id))
  /\ UNCHANGED inflight

(***************************************************************************)
(* GET /owners/<owner_id>/businesses                                       *)
(***************************************************************************)
list_owner_businesses(db, owner_id) ==
  LET ids == SortedIds({i \in DOMAIN db.business : db.business[i].owner_id = owner_id})
  IN Result(Response(200, [i \in 1..Len(ids) |-> WithSelf(db.business[ids[i]], ids[i])]),
            db)

ListOwnerBusinesses(owner_id) ==
  /\ Served("list_owner_businesses", owner_id, list_owner_businesses(DB, owner_id))
  /\ UNCHANGED inflight

(***************************************************************************)
(* POST /reviews                                                           *)
(***************************************************************************)
ReviewRequired == {"user_id", "business_id", "stars"}

ReviewFields == ReviewRequired \cup {"review_text"}

UserIds == {1, 2}

Stars == {1, 2}

Review(u, b, s) == [user_id |-> u, business_id |-> b, stars |-> s]

WithText(data, text) ==
  [k \in DOMAIN data \cup {"review_text"} |->
     IF k = "review_text" THEN text ELSE data[k]]

\* review_text is optional
FullReviewBodies ==
  {Review(u, b, 1) : u \in UserIds, b \in BusinessIds}
  \cup {WithText(Review(u, b, 2), "good") : u \in UserIds, b \in BusinessIds}

\* bodies that lack one required field, and the empty object
PartialReviewBodies ==
  {Restrict(WithText(Review(1, 1, 1), "good"), ReviewFields \ {f}) : f \in ReviewRequired}
  \cup {Restrict(Review(1, 1, 1), {})}

ReviewBodies == FullReviewBodies \cup PartialReviewBodies

\* data.get(key)
Get(data, key) == IF key \in DOMAIN data THEN Some(data[key]) ELSE None

\* the check without its WHERE clause
any_business_check(db, data) == db.business # EmptyTable

\* SELECT * FROM business WHERE id = :bid
business_check(db, data) == data.business_id \in DOMAIN db.business

\* the check with `WHERE user_id = :uid` alone
user_review_check(db, data) ==
  \E r \in DOMAIN db.review : db.review[r].user_id = data.user_id

\* SELECT * FROM review WHERE user_id = :uid AND business_id = :bid
review_check(db, data) ==
  \E r \in DOMAIN db.review :
    /\ db.review[r].user_id = data.user_id
    /\ db.review[r].business_id = data.business_id

ReviewRow(id, data) ==
  [id |-> id,
   user_id |-> data.user_id,
   business_id |-> data.business_id,
   stars |-> data.stars,
   review_text |-> Get(data, "review_text")]

\* INSERT INTO review ...; conn.commit(); SELECT LAST_INSERT_ID(); re-fetch.
\* The foreign key rejects a row whose business is gone (IntegrityError);
\* the AUTO_INCREMENT value it was given is not handed out again.
insert_review(db, data) ==
  IF data.business_id \notin DOMAIN db.business
  THEN Result(ServerError, [db EXCEPT !.reviewNextId = @ + 1])
  ELSE LET id == db.reviewNextId
           working == PutRow(db.review, id, ReviewRow(id, data))
           stored == [db EXCEPT !.review = Commit(@, working), !.reviewNextId = @ + 1]
       IN Result(Response(201, format_review_response(stored.review[id])), stored)

MissingAttribute == Response(400, ErrorBody("missing attribute"))

NoSuchBusiness == Response(404, ErrorBody("No business with this business_id exists"))

AlreadyReviewed == Response(409, ErrorBody("You have already submitted a review"))

\* the whole handler, run without interruption
create_review(db, data) ==
  IF ~HasAll(data, ReviewRequired) THEN Result(MissingAttribute, db)
  ELSE IF ~business_check(db, data) THEN Result(NoSuchBusiness, db)
  ELSE IF review_check(db, data) THEN Result(AlreadyReviewed, db)
  ELSE insert_review(db, data)

CreateReview(data) ==
  /\ reviewNextId <= MaxReviewId
  /\ Served("create_review", 0, create_review(DB, data))
  /\ UNCHANGED inflight

(***************************************************************************)
(* POST /reviews on a threaded server: the statements of one request       *)
(* interleave with the statements of the requests of the other threads.    *)
(***************************************************************************)
InFlight(pc, data) == Some([pc |-> pc, data |-> data])

\* lines 267-276: validation and the business check
CreateReviewBegin(t, data) ==
  /\ inflight[t] = None
  /\ reviewNextId <= MaxReviewId
  /\ IF ~HasAll(data, ReviewRequired)
     THEN Served("create_review", 0, Result(MissingAttribute, DB)) /\ UNCHANGED inflight
     ELSE IF ~business_check(DB, data)
     THEN Served("create_review", 0, Result(NoSuchBusiness, DB)) /\ UNCHANGED inflight
     ELSE /\ inflight' = [inflight EXCEPT ![t] = InFlight("review_check", data)]
          /\ UNCHANGED <<business, review, businessNextId, reviewNextId, last>>

\* lines 278-289: the existence check
CreateReviewCheck(t) ==
  /\ inflight[t] # None
  /\ inflight[t][1].pc = "review_check"
  /\ IF review_check(DB, inflight[t][1].data)
     THEN /\ Served("create_review", 0, Result(AlreadyReviewed, DB))
          /\ inflight' = [inflight EXCEPT ![t] = None]
     ELSE /\ inflight' = [inflight EXCEPT ![t] = InFlight("insert", inflight[t][1].data)]
          /\ UNCHANGED <<business, review, businessNextId, reviewNextId, last>>

\* lines 291-315: insert, commit, re-fetch, respond
CreateReviewInsert(t) ==
  /\ inflight[t] # None
  /\ inflight[t][1].pc = "insert"
  /\ reviewNextId <= MaxReviewId
  /\ Served("create_review", 0, insert_review(DB, inflight[t][1].data))
  /\ inflight' = [inflight EXCEPT ![t] = None]

(***************************************************************************)
(* GET /reviews/<review_id>                                                *)
(***************************************************************************)
\* the path segment is a string; the handler converts it with int()
ReviewPath(id) == DecimalString(id)

ReviewPaths == {ReviewPath(i) : i \in ReviewIds} \cup {<<"-">>}

get_review(db, path) ==
  IF ~PyInt(path).ok
  THEN Result(Response(200, ErrorBody("review_id must be an integer")), db)
  ELSE IF PyInt(path).val \notin DOMAIN db.review
  THEN Result(Response(404, ErrorBody("No review with this review_id exists")), db)
  ELSE Result(Response(200, format_review_response(db.review[PyInt(path).val])), db)

GetReview(path) ==
  /\ Served("get_review", PyInt(path).val, get_review(DB, path))
  /\ UNCHANGED inflight

(***************************************************************************)
(* PUT /reviews/<id>                                                       *)
(***************************************************************************)
EditBodies ==
  {Restrict([stars |-> s, review_text |-> "good"], S) :
     s \in Stars, S \in SUBSET {"stars", "review_text"}}

\* COALESCE(:param, column)
Coalesce(param, column) == IF param # None THEN param[1] ELSE column

\* UPDATE review SET stars = COALESCE(:stars, stars),
\*                   review_text = COALESCE(:review_text, review_text) WHERE id = :id
update_review_query(table, review_id, data) ==
  [table EXCEPT ![review_id] =
     [@ EXCEPT !.stars = Coalesce(Get(data, "stars"), @),
               !.review_text = IF Get(data, "review_text") # None
                               THEN Get(data, "review_text") ELSE @]]

\* the handler never calls conn.commit()
edit_review(db, review_id, data) ==
  IF "stars" \notin DOMAIN data /\ "review_text" \notin DOMAIN data
  THEN Result(MissingAttribute, db)
  ELSE IF review_id \notin DOMAIN db.review
  THEN Result(Response(404, ErrorBody("No review with this review_id exists")), db)
  ELSE LET working == update_review_query(db.review, review_id, data)
       IN Result(Response(200, format_review_response(working[review_id])),
                 [db EXCEPT !.review = Rollback(@, working)])

EditReview(review_id, data) ==
  /\ Served("edit_review", review_id, edit_review(DB, review_id, data))
  /\ UNCHANGED inflight

(***************************************************************************)
(* DELETE /reviews/<id>                                                    *)
(***************************************************************************)
\* the handler never calls conn.commit()
delete_review(db, review_id) ==
  IF review_id \notin DOMAIN db.review
  THEN Result(Response(404, ErrorBody("No review with this review_id exists")), db)
  ELSE LET working == DropRows(db.review, {review_id})
       IN Result(Response(204, EmptyBody), [db EXCEPT !.review = Rollback(@, working)])

DeleteReview(review_id) ==
  /\ Served("delete_review", review_id, delete_review(DB, review_id))
  /\ UNCHANGED inflight

(***************************************************************************)
(* GET /users/<user_id>/reviews                                            *)
(***************************************************************************)
list_user_reviews(db, user_id) ==
  LET ids == SortedIds({r \in DOMAIN db.review : db.review[r].user_id = user_id})
  IN Result(Response(200,
              [i \in 1..Len(ids) |-> format_review_response(db.review[ids[i]])]), db)

ListUserReviews(user_id) ==
  /\ Served("list_user_reviews", user_id, list_user_reviews(DB, user_id))
  /\ UNCHANGED inflight

(***************************************************************************)
(* Specifications.                                                         *)
(***************************************************************************)
Init ==
  /\ business = EmptyTable
  /\ review = EmptyTable
  /\ businessNextId = 1
  /\ reviewNextId = 1
  /\ inflight = [t \in Threads |-> None]
  /\ last = [op |-> "none", id |-> 0, resp |-> Response(0, EmptyBody)]

\* requests served one at a time: every handler runs to its response
Next ==
  \/ \E data \in BusinessBodies : CreateBusiness(data)
  \/ \E b \in BusinessIds : GetBusinessById(b)
  \/ \E l \in Limits, o \in Offsets : GetBusinesses(l, o)
  \/ \E b \in BusinessIds, data \in BusinessBodies : EditBusiness(b, data)
  \/ \E b \in BusinessIds : DeleteBusiness(b)
  \/ \E o \in OwnerIds : ListOwnerBusinesses(o)
  \/ \E data \in ReviewBodies : CreateReview(data)
  \/ \E p \in ReviewPaths : GetReview(p)
  \/ \E r \in ReviewIds, data \in EditBodies : EditReview(r, data)
  \/ \E r \in ReviewIds : DeleteReview(r)
  \/ \E u \in UserIds : ListUserReviews(u)

Spec == Init /\ [][Next]_vars

\* a threaded server: POST /reviews requests of several threads in flight
\* (business rows of one content: no review handler reads it)
OneBusinessBody == {Business(1, JInt(7))}

ThreadedReviewBodies == {Review(1, b, s) : b \in BusinessIds, s \in Stars}

ThreadedNext ==
  \/ \E data \in OneBusinessBody : CreateBusiness(data)
  \/ \E b \in BusinessIds : DeleteBusiness(b)
  \/ \E t \in Threads, data \in ThreadedReviewBodies : CreateReviewBegin(t, data)
  \/ \E t \in Threads : CreateReviewCheck(t)
  \/ \E t \in Threads : CreateReviewInsert(t)

ThreadedSpec == Init /\ [][ThreadedNext]_vars

\* the six business handlers on their own (the review table stays empty)
BusinessNext ==
  \/ \E data \in BusinessBodies : CreateBusiness(data)
  \/ \E b \in BusinessIds : GetBusinessById(b)
  \/ \E l \in Limits, o \in Offsets : GetBusinesses(l, o)
  \/ \E b \in BusinessIds, data \in BusinessBodies : EditBusiness(b, data)
  \/ \E b \in BusinessIds : DeleteBusiness(b)
  \/ \E o \in OwnerIds : ListOwnerBusinesses(o)

BusinessSpec == Init /\ [][BusinessNext]_vars

\* the five review handlers, with the two handlers that create and delete
\* the businesses the reviews refer to
ReviewNext ==
  \/ \E data \in OneBusinessBody : CreateBusiness(data)
  \/ \E b \in BusinessIds : DeleteBusiness(b)
  \/ \E data \in ReviewBodies : CreateReview(data)
  \/ \E p \in ReviewPaths : GetReview(p)
  \/ \E r \in ReviewIds, data \in EditBodies : EditReview(r, data)
  \/ \E r \in ReviewIds : DeleteReview(r)
  \/ \E u \in UserIds : ListUserReviews(u)

ReviewSpec == Init /\ [][ReviewNext]_vars

(***************************************************************************)
(* Properties.                                                             *)
(***************************************************************************)
SamePair(d1, d2) == d1.user_id = d2.user_id /\ d1.business_id = d2.business_id

\* C1: in every reachable state there is at most one review row per
\* (user_id, business_id) pair, also when POST /reviews requests interleave.
OneReviewPerUserAndBusiness ==
  \A r1 \in DOMAIN review, r2 \in DOMAIN review :
    SamePair(review[r1], review[r2]) => r1 = r2

\* C2: DELETE /businesses/{id} of an existing business answers 204; afterwards
\* GET on the business and on each of its reviews answers 404, and the other
\* businesses and the reviews of other businesses are unchanged.
DeleteBusinessRemovesItsReviews ==
  [][\A b \in BusinessIds :
       (b \in DOMAIN business /\ DeleteBusiness(b)) =>
         /\ last'.resp.status = 204
         /\ get_business_by_id(DB', b).resp.status = 404
         /\ \A r \in DOMAIN review :
              review[r].business_id = b =>
                get_review(DB', ReviewPath(r)).resp.status = 404
         /\ DOMAIN business' = DOMAIN business \ {b}
         /\ \A b2 \in DOMAIN business' : business'[b2] = business[b2]
         /\ DOMAIN review' = {r \in DOMAIN review : review[r].business_id # b}
         /\ \A r \in DOMAIN review' : review'[r] = review[r]]_vars

\* a business was deleted together with a review of it (review ids go
\* missing only by that cascade) while a review of another business stays
DeleteBusinessWitness ==
  /\ last.op = "delete_business"
  /\ last.resp.status = 204
  /\ \E r \in ReviewIds : r < reviewNextId /\ r \notin DOMAIN review
  /\ review # EmptyTable

\* C3: DELETE /reviews/{id} of an existing review answers 204 and the review
\* is gone for later requests (GET answers 404, the user's list lacks it); of
\* an absent id it answers 404 and changes nothing.
DeleteReviewRemovesReview ==
  [][\A r \in ReviewIds :
       DeleteReview(r) =>
         IF r \in DOMAIN review
         THEN /\ last'.resp.status = 204
              /\ get_review(DB', ReviewPath(r)).resp.status = 404
              /\ LET listed == list_user_reviews(DB', review[r].user_id).resp.body
                 IN \A i \in 1..Len(listed) : listed[i].id # r
         ELSE /\ last'.resp.status = 404
              /\ UNCHANGED <<business, review, businessNextId, reviewNextId>>]_vars

\* C4: after PUT /reviews/{id} answers 200, a separate GET /reviews/{id}
\* answers with the same id, stars and review_text as the PUT response.
EditReviewReadYourWrite ==
  [][\A r \in ReviewIds, data \in EditBodies :
       (EditReview(r, data) /\ last'.resp.status = 200) =>
         LET got == get_review(DB', ReviewPath(r)).resp
         IN /\ got.status = 200
            /\ last'.resp.body.id = r
            /\ got.body.id = r
            /\ got.body.stars = last'.resp.body.stars
            /\ got.body.review_text = last'.resp.body.review_text]_vars

\* C5: the first POST /reviews for a (user_id, business_id) pair of an
\* existing business answers 201; a second one for the same pair, whatever
\* its stars and review_text, answers 409 and changes nothing.
SecondReviewConflicts ==
  [][\A d \in FullReviewBodies :
       (/\ d.business_id \in DOMAIN business
        /\ \A r \in DOMAIN review : ~SamePair(review[r], d)
        /\ CreateReview(d)) =>
         /\ last'.resp.status = 201
         /\ \A d2 \in FullReviewBodies :
              SamePair(d, d2) =>
                /\ create_review(DB', d2).resp.status = 409
                /\ create_review(DB', d2).db = DB']_vars

\* a second review of the same pair was refused
SecondReviewWitness ==
  /\ last.op = "create_review"
  /\ last.resp.status = 409
  /\ review # EmptyTable

\* C6: PUT /reviews/{id} with only stars sets stars and keeps review_text;
\* with only review_text sets review_text and keeps stars; id, user_id and
\* business_id stay; with neither field it answers 400 and changes nothing.
EditReviewPartialUpdate ==
  [][\A r \in ReviewIds, data \in EditBodies :
       (r \in DOMAIN review /\ EditReview(r, data)) =>
         /\ r \in DOMAIN review'
         /\ review'[r].id = r
         /\ review'[r].user_id = review[r].user_id
         /\ review'[r].business_id = review[r].business_id
         /\ DOMAIN data = {"stars"} =>
              /\ review'[r].stars = data.stars
              /\ review'[r].review_text = review[r].review_text
         /\ DOMAIN data = {"review_text"} =>
              /\ review'[r].review_text = Some(data.review_text)
              /\ review'[r].stars = review[r].stars
         /\ DOMAIN data = {} =>
              /\ last'.resp.status = 400
              /\ review' = review]_vars

\* C7: POST /reviews with the required fields and a business_id of no stored
\* business answers 404 and inserts nothing.
ReviewOfMissingBusinessIs404 ==
  [][\A d \in ReviewBodies :
       (ReviewRequired \subseteq DOMAIN d /\ d.business_id \notin DOMAIN business
          /\ CreateReview(d)) =>
         /\ last'.resp.status = 404
         /\ UNCHANGED <<business, review, businessNextId, reviewNextId>>]_vars

\* a review of a business that is not stored was refused while other
\* businesses are
ReviewOfMissingBusinessWitness ==
  /\ last.op = "create_review"
  /\ last.resp.status = 404
  /\ business # EmptyTable

\* C8: POST /businesses with a body lacking a required field answers 400,
\* inserts no row and consumes no id; PUT /businesses/{id} with such a body
\* answers 400 whether or not the id exists and changes no row.
MissingBusinessFieldIs400 ==
  [][\A data \in BusinessBodies :
       ~(BusinessFields \subseteq DOMAIN data) =>
         /\ CreateBusiness(data) =>
              /\ last'.resp.status = 400
              /\ UNCHANGED <<business, review, businessNextId, reviewNextId>>
         /\ \A b \in BusinessIds :
              EditBusiness(b, data) =>
                /\ last'.resp.status = 400
                /\ UNCHANGED <<business, review, businessNextId, reviewNextId>>]_vars

\* a PUT with an incomplete body was refused with 400 for an id that is not
\* stored, while other businesses are
MissingBusinessFieldWitness ==
  /\ last.op = "edit_business"
  /\ last.resp.status = 400
  /\ last.id \notin DOMAIN business
  /\ business # EmptyTable

RECURSIVE FollowNext(_, _, _, _)
\* the ids seen by following next links, giving up after `pages` more pages
FollowNext(db, limit, offset, pages) ==
  LET r == get_businesses(db, limit, offset).resp
  IN IF r.status # 200 THEN [ended |-> FALSE, ids |-> <<>>]
     ELSE LET here == [i \in 1..Len(r.body.entries) |-> r.body.entries[i].id]
          IN IF r.body.next = None THEN [ended |-> TRUE, ids |-> here]
             ELSE IF pages = 0 THEN [ended |-> FALSE, ids |-> here]
             ELSE LET rest == FollowNext(db, r.body.next[1].limit,
                                         r.body.next[1].offset, pages - 1)
                  IN [ended |-> rest.ended, ids |-> here \o rest.ids]

\* C9: for every integer limit and offset GET /businesses answers 200 with at
\* most limit entries starting at offset, and a next link exactly when
\* offset + limit < total, carrying offset + limit and limit; following next
\* links from offset 0 visits every business once and ends.
PaginationCoversEveryBusiness ==
  [][\A l \in Limits, o \in Offsets :
       GetBusinesses(l, o) =>
         LET ids == SortedIds(DOMAIN business)
             total == Len(ids)
             body == last'.resp.body
         IN /\ last'.resp.status = 200
            /\ Len(body.entries) <= l
            /\ \A i \in 1..Len(body.entries) :
                 o + i <= total /\ body.entries[i].id = ids[o + i]
            /\ (body.next # None) <=> (o + l < total)
            /\ body.next # None => body.next = Some(NextLink(o + l, l))
            /\ o = 0 =>
                 LET walk == FollowNext(DB, l, 0, total)
                 IN walk.ended /\ walk.ids = ids]_vars

\* the zip code a response carries is the one that was submitted
SameZip(submitted, returned) == ToVarchar(submitted) = DecimalString(returned)

\* C10: POST /businesses with all six fields answers 201 with a fresh id and
\* its self link; GET /businesses/{id} then answers 200 with the submitted
\* owner_id, name, street_address, city, state and zip_code; the businesses
\* that existed are unchanged.
CreateBusinessRoundTrip ==
  [][\A data \in FullBusinessBodies :
       CreateBusiness(data) =>
         /\ last'.resp.status = 201
         /\ LET id == last'.resp.body.id
                got == get_business_by_id(DB', id).resp
            IN /\ id \notin DOMAIN business
               /\ last'.resp.body.self = BusinessUrl(id)
               /\ got.status = 200
               /\ got.body.owner_id = data.owner_id
               /\ got.body.name = data.name
               /\ got.body.street_address = data.street_address
               /\ got.body.city = data.city
               /\ got.body.state = data.state
               /\ SameZip(data.zip_code, got.body.zip_code)
               /\ \A b \in DOMAIN business :
                    b \in DOMAIN business' /\ business'[b] = business[b]]_vars
====
